---- MODULE Spec2Model ----
(***************************************************************************)
(* A model of DataLineageTracker (src/src/lib.rs): analyze_file parses a   *)
(* JavaScript file, process_tree turns the syntax tree into a graph of     *)
(* root / scope / declaration / reference nodes, and get_full_lineage and  *)
(* print_lineage read that graph.                                          *)
(*                                                                         *)
(* The syntax tree is the input.  It is a sequence of nodes in pre-order;  *)
(* a node records what the tree_sitter API exposes to the code: kind(),    *)
(* parent(), the field it fills in its parent (child_by_field_name), its   *)
(* text (utf8_text) and start_position().  utf8_text is always Ok here:    *)
(* source_code is a Rust String and node ranges lie on character           *)
(* boundaries, so the Err branches of lines 88-90 are not reachable.       *)
(*                                                                         *)
(* Scope strings and report lines are strings built with \o.  A position   *)
(* attribute is a sequence of one-character strings, so that the split and *)
(* parse of print_lineage can be modelled as what they do.                 *)
(***************************************************************************)
EXTENDS Integers, Sequences, FiniteSets, TLC

VARIABLES
    file,         \* the file at the path given to analyze_file (its text, as the tree
                  \* the parser makes of it)
    source_code,  \* DataLineageTracker.source_code
    tree,         \* DataLineageTracker.tree
    graph,        \* DataLineageTracker.graph
    ret           \* what the last call returned or printed

vars == <<file, source_code, tree, graph, ret>>

(***************************************************************************)
(* Bounds of the input space.                                              *)
(***************************************************************************)
\* number of statements (uses, declarators, functions, classes, methods) of a file
MaxItems == 3
\* number of nodes of a syntax tree
MaxNodes == 9
\* number of statements appended to the file on disk by EditFile
MaxEdits == 2

\* texts of the identifiers that are used
UseNames == {"x"}
\* texts of the identifiers that are declared
DeclNames == {"x", "f"}
\* names of functions
ScopeNames == {"f", "global"}
\* names of classes and methods
ClassNames == {"f"}
\* text of a destructuring pattern in the name field of a declarator
PatternText == "{x}"
\* a name that occurs in no file
AbsentName == "doesNotExist"
\* the names get_full_lineage is called with
QueryNames == {"x", "f", AbsentName}
\* every name a graph can hold, and the absent one
AllNames == UseNames \cup DeclNames \cup ScopeNames \cup ClassNames \cup {PatternText, AbsentName}

(***************************************************************************)
(* The syntax trees.                                                       *)
(***************************************************************************)
ScopeKinds == {"function_declaration", "method_definition", "class_declaration"}

TsNode(kind, field, text, parent, row, column) ==
    [kind |-> kind, field |-> field, text |-> text, parent |-> parent,
     row |-> row, column |-> column]

\* a file with no statement: the program node alone
EmptyProgram == <<TsNode("program", "", "", 0, 0, 0)>>

\* An item is the nodes one statement adds: up = 0 puts the node under the
\* container, up = k under the k-th node of the item; dcol is the column of the
\* node relative to the statement's.
Part(kind, field, text, up, dcol) ==
    [kind |-> kind, field |-> field, text |-> text, up |-> up, dcol |-> dcol]

StatementItems ==
    {<<Part("identifier", "", v, 0, 0)>> : v \in UseNames}
    \cup {<<Part("variable_declarator", "", "", 0, 4),
            Part("identifier", "name", v, 1, 4)>> : v \in DeclNames}
    \cup {<<Part("variable_declarator", "", "", 0, 4),
            Part("object_pattern", "name", PatternText, 1, 4)>>}
    \cup {<<Part("function_declaration", "", "", 0, 0),
            Part("identifier", "name", f, 1, 9),
            Part("statement_block", "body", "", 1, 13)>> : f \in ScopeNames}
    \cup {<<Part("function_declaration", "", "", 0, 0),
            Part("statement_block", "body", "", 1, 9)>>}
    \cup {<<Part("class_declaration", "", "", 0, 0),
            Part("identifier", "name", f, 1, 6),
            Part("class_body", "body", "", 1, 10)>> : f \in ClassNames}

MemberItems ==
    {<<Part("method_definition", "", "", 0, 0),
       Part("property_identifier", "name", f, 1, 0),
       Part("statement_block", "body", "", 1, 9)>> : f \in ClassNames}

ItemsIn(kind) ==
    CASE kind \in {"program", "statement_block"} -> StatementItems
      [] kind = "class_body" -> MemberItems
      [] OTHER -> {}

RECURSIVE Ancestors(_, _)
\* the proper ancestors of node i, nearest first
Ancestors(t, i) ==
    IF t[i].parent = 0 THEN <<>> ELSE <<t[i].parent>> \o Ancestors(t, t[i].parent)

Range(s) == {s[k] : k \in DOMAIN s}

\* the nodes a further statement can go under: the last node and its ancestors
OpenNodes(t) == {Len(t)} \cup Range(Ancestors(t, Len(t)))

AppendItem(t, c, item) ==
    LET base == Len(t)
        row  == Len(t)
        col  == 2 * Len(Ancestors(t, c))
    IN t \o [k \in 1..Len(item) |->
               TsNode(item[k].kind, item[k].field, item[k].text,
                      IF item[k].up = 0 THEN c ELSE base + item[k].up,
                      row, col + item[k].dcol)]

Extensions(t) ==
    UNION {{AppendItem(t, c, item) :
                item \in {i \in ItemsIn(t[c].kind) : Len(t) + Len(i) <= MaxNodes}} :
           c \in OpenNodes(t)}

\* the number of statements of a file
ItemCount(t) == Cardinality({k \in DOMAIN t : t[k].field = "" /\ t[k].parent # 0})

RECURSIVE TreesOf(_)
\* the files of exactly n statements
TreesOf(n) ==
    IF n = 0 THEN {EmptyProgram} ELSE UNION {Extensions(t) : t \in TreesOf(n - 1)}

Trees == UNION {TreesOf(n) : n \in 0..MaxItems}

(***************************************************************************)
(* The tree_sitter calls the code makes.                                   *)
(***************************************************************************)
None == [some |-> FALSE]
Some(v) == [some |-> TRUE, value |-> v]

\* node.children(&mut cursor): the children in source order
children(t, node) ==
    LET RECURSIVE From(_)
        From(k) == IF k > Len(t) THEN <<>>
                   ELSE IF t[k].parent = node THEN <<k>> \o From(k + 1)
                   ELSE From(k + 1)
    IN From(node + 1)

\* node.child_by_field_name("name"): the first child in that field
child_by_field_name(t, node, field) ==
    LET named == SelectSeq(children(t, node), LAMBDA k : t[k].field = field)
    IN IF named = <<>> THEN None ELSE Some(named[1])

\* node.parent()
parent(t, node) == IF t[node].parent = 0 THEN None ELSE Some(t[node].parent)

\* node.utf8_text(self.source_code.as_bytes())
utf8_text(t, node) == t[node].text

\* node.start_position(): zero-based row and column
start_position(t, node) == [row |-> t[node].row, column |-> t[node].column]

(***************************************************************************)
(* Strings.                                                                *)
(***************************************************************************)
Digits == <<"0", "1", "2", "3", "4", "5", "6", "7", "8", "9">>

RECURSIVE format_usize(_)
\* format!("{}", n): the decimal digits of n
format_usize(n) ==
    IF n < 10 THEN <<Digits[n + 1]>> ELSE format_usize(n \div 10) \o <<Digits[(n % 10) + 1]>>

\* format!("{},{}", start_pos.row + 1, start_pos.column + 1)
format_position(start_pos) ==
    format_usize(start_pos.row + 1) \o <<",">> \o format_usize(start_pos.column + 1)

RECURSIVE split(_, _)
\* str::split: the pieces between the separators
split(chars, sep) ==
    IF \A k \in DOMAIN chars : chars[k] # sep THEN <<chars>>
    ELSE LET at == CHOOSE k \in DOMAIN chars :
                       chars[k] = sep /\ \A j \in 1..(k - 1) : chars[j] # sep
         IN <<SubSeq(chars, 1, at - 1)>> \o split(SubSeq(chars, at + 1, Len(chars)), sep)

DigitValue(c) == (CHOOSE d \in 1..10 : Digits[d] = c) - 1

RECURSIVE parse_digits(_, _)
parse_digits(chars, acc) ==
    IF chars = <<>> THEN acc
    ELSE parse_digits(Tail(chars), 10 * acc + DigitValue(Head(chars)))

\* s.parse::<usize>().unwrap_or(0)
parse_usize_or_0(chars) ==
    IF chars # <<>> /\ \A k \in DOMAIN chars : chars[k] \in Range(Digits)
    THEN parse_digits(chars, 0) ELSE 0

RECURSIVE concat(_)
\* the string of a sequence of characters
concat(chars) == IF chars = <<>> THEN "" ELSE Head(chars) \o concat(Tail(chars))

RECURSIVE join(_, _)
\* [String]::join
join(parts, sep) ==
    IF parts = <<>> THEN ""
    ELSE IF Len(parts) = 1 THEN parts[1]
    ELSE parts[1] \o sep \o join(Tail(parts), sep)

RECURSIVE reverse(_)
\* Vec::reverse
reverse(s) == IF s = <<>> THEN <<>> ELSE reverse(Tail(s)) \o <<Head(s)>>

(***************************************************************************)
(* The graph (tree_sitter_graph::graph::Graph): nodes in creation order,   *)
(* each with its attributes and its outgoing edges.                        *)
(***************************************************************************)
\* Graph::new()
NewGraph == <<>>

\* Graph::add_graph_node: the new node is the last one
add_graph_node(g) == Append(g, [attributes |-> <<>>, edges |-> {}])

\* GraphNode::add_edge(sink).ok(): nothing changes when the edge is there
add_edge(g, source, sink) ==
    [g EXCEPT ![source].edges = @ \cup {sink}]

\* Attributes::add(name, value).ok(): nothing changes when the name is there
add_attribute(g, node, name, value) ==
    IF name \in DOMAIN g[node].attributes THEN g
    ELSE [g EXCEPT ![node].attributes = @ @@ (name :> value)]

\* Attributes::get(name)
get_attribute(g, node, name) ==
    IF name \in DOMAIN g[node].attributes THEN Some(g[node].attributes[name]) ELSE None

\* Graph::iter_nodes: the node references in creation order
iter_nodes(g) == [k \in 1..Len(g) |-> k]

(***************************************************************************)
(* DataLineageTracker.                                                     *)
(***************************************************************************)
\* the name a scope-defining ancestor n adds to scope_parts, if any
scope_part(t, n) ==
    IF t[n].kind \in ScopeKinds /\ child_by_field_name(t, n, "name").some
    THEN <<utf8_text(t, child_by_field_name(t, n, "name").value)>>
    ELSE <<>>

RECURSIVE scope_parts_from(_, _)
\* the while loop of determine_scope: the names pushed from `current` upwards
scope_parts_from(t, current) ==
    IF ~current.some THEN <<>>
    ELSE scope_part(t, current.value) \o scope_parts_from(t, parent(t, current.value))

\* determine_scope without scope_parts.reverse(): innermost name first
determine_scope_unreversed(t, node) ==
    LET scope_parts == scope_parts_from(t, parent(t, node))
    IN IF scope_parts = <<>> THEN "global" ELSE join(scope_parts, "::")

determine_scope(t, node) ==
    LET scope_parts == reverse(scope_parts_from(t, parent(t, node)))
    IN IF scope_parts = <<>> THEN "global" ELSE join(scope_parts, "::")

\* the first match of process_tree: the scope node of a named scope-defining
\* node, or the parent's
current_scope(t, node, g, parent_ref) ==
    LET name_node == child_by_field_name(t, node, "name")
        scope_node == Len(g) + 1
    IN IF t[node].kind \in ScopeKinds /\ name_node.some
       THEN [graph |-> add_attribute(
                          add_attribute(
                            add_edge(add_graph_node(g), parent_ref, scope_node),
                            scope_node, "type", "scope"),
                          scope_node, "name", utf8_text(t, name_node.value)),
             ref |-> scope_node]
       ELSE [graph |-> g, ref |-> parent_ref]

\* a declaration or reference node under current_scope_ref
add_entry(g, current_scope_ref, type, name, scope, position) ==
    LET entry == Len(g) + 1
    IN add_attribute(
         add_attribute(
           add_attribute(
             add_attribute(
               add_edge(add_graph_node(g), current_scope_ref, entry),
               entry, "type", type),
             entry, "name", name),
           entry, "scope", scope),
         entry, "position", position)

\* the "variable_declarator" arm
declaration_arm(t, node, g, current_scope_ref) ==
    LET name_node == child_by_field_name(t, node, "name")
    IN IF name_node.some
       THEN add_entry(g, current_scope_ref, "declaration",
                      utf8_text(t, name_node.value), determine_scope(t, node),
                      format_position(start_position(t, name_node.value)))
       ELSE g

\* the "identifier" arm, had it looked the name up among the declarations
\* recorded so far and dropped the occurrence when there is none
identifier_arm_declared_only(t, node, g, current_scope_ref) ==
    IF \E r \in DOMAIN g :
          /\ "name" \in DOMAIN g[r].attributes
          /\ g[r].attributes["type"] = "declaration"
          /\ g[r].attributes["name"] = utf8_text(t, node)
    THEN add_entry(g, current_scope_ref, "reference",
                   utf8_text(t, node), determine_scope(t, node),
                   format_position(start_position(t, node)))
    ELSE g

\* the "identifier" arm, had it skipped the identifier that is the name of its
\* parent (already recorded as a declaration or a scope)
identifier_arm_skip_names(t, node, g, current_scope_ref) ==
    IF t[node].field = "name" THEN g
    ELSE add_entry(g, current_scope_ref, "reference",
                   utf8_text(t, node), determine_scope(t, node),
                   format_position(start_position(t, node)))

\* the "identifier" arm
identifier_arm(t, node, g, current_scope_ref) ==
    add_entry(g, current_scope_ref, "reference",
              utf8_text(t, node), determine_scope(t, node),
              format_position(start_position(t, node)))

\* the second match of process_tree
classify(t, node, g, current_scope_ref) ==
    CASE t[node].kind = "variable_declarator" -> declaration_arm(t, node, g, current_scope_ref)
      [] t[node].kind = "identifier" -> identifier_arm(t, node, g, current_scope_ref)
      [] OTHER -> g

\* the children processed under the scope node the node itself was given
children_scope_ref_of_parent(current_scope_ref, parent_ref) == parent_ref

\* the scope node the children of a node are processed under
children_scope_ref(current_scope_ref, parent_ref) == current_scope_ref

RECURSIVE process_tree(_, _, _, _)
process_tree(t, node, g, parent_ref) ==
    LET scoped == current_scope(t, node, g, parent_ref)
        classified == classify(t, node, scoped.graph, scoped.ref)
        RECURSIVE each_child(_, _)
        each_child(kids, acc) ==
            IF kids = <<>> THEN acc
            ELSE each_child(Tail(kids),
                            process_tree(t, Head(kids), acc,
                                         children_scope_ref(scoped.ref, parent_ref)))
    IN each_child(children(t, node), classified)

\* new_graph with its root node, before the traversal
root_graph == add_attribute(add_graph_node(NewGraph), 1, "type", "root")

\* the graph analyze_file assigns to self.graph
analyzed_graph(t) == process_tree(t, 1, root_graph, 1)

\* the lines one loop of get_full_lineage pushes
lineage_lines(g, type, prefix, variable_name) ==
    LET RECURSIVE loop(_)
        loop(refs) ==
            IF refs = <<>> THEN <<>>
            ELSE LET node_type == get_attribute(g, Head(refs), "type")
                     name == get_attribute(g, Head(refs), "name")
                     scope == get_attribute(g, Head(refs), "scope")
                 IN (IF /\ node_type.some /\ name.some
                        /\ node_type.value = type /\ name.value = variable_name
                        /\ scope.some
                     THEN <<prefix \o scope.value>> ELSE <<>>)
                    \o loop(Tail(refs))
    IN loop(iter_nodes(g))

declared_lines(g, variable_name) ==
    lineage_lines(g, "declaration", "Declared in scope: ", variable_name)

\* the second loop, had it kept the node type of the first
referenced_lines_of_declarations(g, variable_name) ==
    lineage_lines(g, "declaration", "Referenced in scope: ", variable_name)

referenced_lines(g, variable_name) ==
    lineage_lines(g, "reference", "Referenced in scope: ", variable_name)

get_full_lineage(g, variable_name) ==
    declared_lines(g, variable_name) \o referenced_lines(g, variable_name)

\* the nodes of a type that have a name, a scope and a position
entries_of(g, type) ==
    SelectSeq(iter_nodes(g), LAMBDA r :
        /\ get_attribute(g, r, "type").some
        /\ get_attribute(g, r, "name").some
        /\ get_attribute(g, r, "scope").some
        /\ get_attribute(g, r, "type").value = type
        /\ get_attribute(g, r, "position").some)

\* the first loop of print_lineage: HashMap::insert per declaration node
find_declarations(g) ==
    LET RECURSIVE loop(_, _)
        loop(refs, declarations) ==
            IF refs = <<>> THEN declarations
            ELSE loop(Tail(refs),
                      (g[Head(refs)].attributes["name"] :>
                          [scope |-> g[Head(refs)].attributes["scope"], references |-> <<>>])
                      @@ declarations)
    IN loop(entries_of(g, "declaration"), <<>>)

\* the second loop of print_lineage: push onto the declaration of that name
find_references(g, declarations0) ==
    LET RECURSIVE loop(_, _)
        loop(refs, declarations) ==
            IF refs = <<>> THEN declarations
            ELSE LET a == g[Head(refs)].attributes
                     start_pos == [k \in DOMAIN split(a["position"], ",") |->
                                     parse_usize_or_0(split(a["position"], ",")[k])]
                 IN loop(Tail(refs),
                         IF a["name"] \in DOMAIN declarations
                         THEN [declarations EXCEPT ![a["name"]].references =
                                 Append(@, <<start_pos[1], start_pos[2], a["scope"]>>)]
                         ELSE declarations)
    IN loop(entries_of(g, "reference"), declarations0)

\* the map print_lineage prints
collected(g) == find_references(g, find_declarations(g))

\* what print_lineage prints for one variable
variable_block(name, entry) ==
    <<"", "Variable: " \o name, " Declared in scope: " \o entry.scope>>
    \o (IF entry.references = <<>> THEN <<" No references found">>
        ELSE <<" References:">> \o
             [k \in DOMAIN entry.references |->
                " - At line " \o concat(format_usize(entry.references[k][1]))
                \o ", column " \o concat(format_usize(entry.references[k][2]))
                \o " (in scope: " \o entry.references[k][3] \o ")"])

\* the orders a HashMap of these keys can be iterated in
iteration_orders(keys) ==
    {order \in [1..Cardinality(keys) -> keys] : Range(order) = keys}

\* the blocks print_lineage prints, the map being iterated in `order`
print_lineage(g, order) ==
    [k \in DOMAIN order |-> variable_block(order[k], collected(g)[order[k]])]

(***************************************************************************)
(* The calls.                                                              *)
(***************************************************************************)
Init ==
    /\ file \in Trees
    /\ source_code = None
    /\ tree = None
    /\ graph = NewGraph
    /\ ret = [op |-> "new"]

\* analyze_file, had it processed the tree into self.graph instead of a new graph
AnalyzeFile_in_place ==
    \E outcome \in {"unreadable", "no_parse", "parsed"} :
        /\ source_code' = IF outcome = "unreadable" THEN source_code ELSE Some(file)
        /\ tree' = IF outcome = "parsed" THEN Some(file) ELSE tree
        /\ graph' = IF outcome = "parsed"
                    THEN LET root == Len(graph) + 1
                         IN process_tree(file, 1,
                                add_attribute(add_graph_node(graph), root, "type", "root"),
                                root)
                    ELSE graph
        /\ ret' = [op |-> "analyze_file",
                   value |-> IF outcome = "parsed" THEN "Ok" ELSE "Err"]
        /\ UNCHANGED file

\* analyze_file(path).  "unreadable": read_to_string fails and nothing is
\* assigned.  "no_parse": set_language or parse fails after source_code was
\* assigned.  "parsed": the tree is stored and processed into a new graph, which
\* then replaces self.graph (process_tree itself returns no error).
AnalyzeFile ==
    \E outcome \in {"unreadable", "no_parse", "parsed"} :
        /\ source_code' = IF outcome = "unreadable" THEN source_code ELSE Some(file)
        /\ tree' = IF outcome = "parsed" THEN Some(file) ELSE tree
        /\ graph' = IF outcome = "parsed" THEN analyzed_graph(file) ELSE graph
        /\ ret' = [op |-> "analyze_file",
                   value |-> IF outcome = "parsed" THEN "Ok" ELSE "Err"]
        /\ UNCHANGED file

GetFullLineage ==
    \E variable_name \in QueryNames :
        /\ ret' = [op |-> "get_full_lineage", name |-> variable_name,
                   value |-> get_full_lineage(graph, variable_name)]
        /\ UNCHANGED <<file, source_code, tree, graph>>

PrintLineage ==
    \E order \in iteration_orders(DOMAIN collected(graph)) :
        /\ ret' = [op |-> "print_lineage", value |-> print_lineage(graph, order)]
        /\ UNCHANGED <<file, source_code, tree, graph>>

Next == AnalyzeFile \/ GetFullLineage \/ PrintLineage

Spec == Init /\ [][Next]_vars

(***************************************************************************)
(* The same tracker used over a file that is edited between the calls: a   *)
(* statement is appended to the file on disk.                              *)
(***************************************************************************)
LifecycleInit ==
    /\ file = EmptyProgram
    /\ source_code = None
    /\ tree = None
    /\ graph = NewGraph
    /\ ret = [op |-> "new"]

EditFile ==
    /\ ItemCount(file) < MaxEdits
    /\ file' \in Extensions(file)
    /\ UNCHANGED <<source_code, tree, graph, ret>>

LifecycleNext == AnalyzeFile \/ GetFullLineage \/ PrintLineage \/ EditFile

LifecycleSpec == LifecycleInit /\ [][LifecycleNext]_vars

(***************************************************************************)
(* What the properties speak of, read off the syntax tree.                 *)
(***************************************************************************)
HasName(t, i) == \E k \in DOMAIN t : t[k].parent = i /\ t[k].field = "name"

NameNode(t, i) ==
    CHOOSE k \in DOMAIN t :
        /\ t[k].parent = i /\ t[k].field = "name"
        /\ \A j \in 1..(k - 1) : ~(t[j].parent = i /\ t[j].field = "name")

NameOf(t, i) == t[NameNode(t, i)].text

RECURSIVE InOrder(_)
\* a set of nodes as a sequence, in pre-order
InOrder(S) ==
    IF S = {} THEN <<>>
    ELSE LET m == CHOOSE m \in S : \A o \in S : m <= o
         IN <<m>> \o InOrder(S \ {m})

\* the variable_declarators of the name n
Declarators(t, n) ==
    {i \in DOMAIN t : t[i].kind = "variable_declarator" /\ HasName(t, i) /\ NameOf(t, i) = n}

\* the identifier occurrences of the name n
Occurrences(t, n) == {i \in DOMAIN t : t[i].kind = "identifier" /\ t[i].text = n}

\* the function, method and class ancestors of a node
ScopeAncestors(t, i) == {a \in Range(Ancestors(t, i)) : t[a].kind \in ScopeKinds}

\* those of them that have a name
Enclosing(t, i) == {a \in ScopeAncestors(t, i) : HasName(t, a)}

RECURSIVE PathOf(_, _)
\* the names of a sequence of nodes, joined with "::"
PathOf(t, nodes) ==
    IF Len(nodes) = 1 THEN NameOf(t, nodes[1])
    ELSE PathOf(t, SubSeq(nodes, 1, Len(nodes) - 1)) \o "::" \o NameOf(t, nodes[Len(nodes)])

\* the scope path of a node: its named enclosing scopes, outermost first
ScopeOf(t, i) ==
    IF Enclosing(t, i) = {} THEN "global" ELSE PathOf(t, InOrder(Enclosing(t, i)))

TopLevel(t, i) == ScopeAncestors(t, i) = {}

\* the lines of a lineage that say "Referenced in scope: ..."
IsReferencedLine(t, line) ==
    line \in {"Referenced in scope: " \o ScopeOf(t, i) : i \in DOMAIN t}

IsDeclaredLine(t, line) ==
    line \in {"Declared in scope: " \o ScopeOf(t, i) : i \in DOMAIN t}

ReferencedPart(t, lines) == SelectSeq(lines, LAMBDA l : IsReferencedLine(t, l))

\* one "Referenced in scope" line per node of a set, in pre-order
ReferencedLinesFor(t, nodes) ==
    [k \in 1..Cardinality(nodes) |-> "Referenced in scope: " \o ScopeOf(t, InOrder(nodes)[k])]

\* get_full_lineage has returned, for a tracker that has analyzed a file
LineageReturned == tree.some /\ ret.op = "get_full_lineage"

(***************************************************************************)
(* C1: forward references.                                                 *)
(***************************************************************************)
\* get_full_lineage has returned for a name the analyzed tree declares
DeclaredLineageReturned ==
    LineageReturned /\ Declarators(tree.value, ret.name) # {}

LaterDeclarator(t, n) == CHOOSE d \in Declarators(t, n) : \A o \in Declarators(t, n) : o <= d

\* the occurrences of n visited after its later declarator
AfterLater(t, n) == {i \in Occurrences(t, n) : i > LaterDeclarator(t, n)}

\* C2: when a tree has two variable_declarators of one name, the queries report
\* exactly one declaration for it, with the scope of the later declarator, and
\* the references reported hold no occurrence visited before the later declarator.
C2_OverwriteOnRedeclare ==
    tree.some =>
        LET t == tree.value
            twice == {n \in AllNames : Cardinality(Declarators(t, n)) >= 2}
        IN /\ (ret.op = "get_full_lineage" /\ ret.name \in twice) =>
                ret.value = <<"Declared in scope: " \o ScopeOf(t, LaterDeclarator(t, ret.name))>>
                            \o ReferencedLinesFor(t, AfterLater(t, ret.name))
           /\ ret.op = "print_lineage" =>
                \A n \in twice :
                    /\ Cardinality({k \in DOMAIN ret.value :
                                       ret.value[k][2] = "Variable: " \o n}) = 1
                    /\ \A k \in DOMAIN ret.value :
                          ret.value[k][2] = "Variable: " \o n =>
                            /\ ret.value[k][3] = " Declared in scope: "
                                                   \o ScopeOf(t, LaterDeclarator(t, n))
                            /\ Len(ret.value[k]) = 4 + Cardinality(AfterLater(t, n))

(***************************************************************************)
(* C3: names that are not declared.                                        *)
(***************************************************************************)
\* C3: for a name that no variable_declarator of the analyzed tree declares (and
\* for any name when no analysis has run), get_full_lineage returns the empty
\* sequence.
C3_EmptyLineageForUndeclared ==
    (/\ ret.op = "get_full_lineage"
     /\ (tree.some => Declarators(tree.value, ret.name) = {}))
        => ret.value = <<>>

(***************************************************************************)
(* C4: the shape of a lineage.                                             *)
(***************************************************************************)
\* the reference nodes of the graph for a name, in creation order
ReferenceNodes(g, n) ==
    SelectSeq(iter_nodes(g), LAMBDA r :
        /\ "type" \in DOMAIN g[r].attributes /\ g[r].attributes["type"] = "reference"
        /\ "name" \in DOMAIN g[r].attributes /\ g[r].attributes["name"] = n)

\* C4: for a declared name, get_full_lineage is exactly one "Declared in scope"
\* line, first, followed by one "Referenced in scope" line per recorded reference
\* of the name, in the order they were recorded.
C4_LineageShape ==
    DeclaredLineageReturned =>
        LET refs == ReferenceNodes(graph, ret.name)
        IN /\ Len(ret.value) = 1 + Len(refs)
           /\ IsDeclaredLine(tree.value, ret.value[1])
           /\ \A k \in DOMAIN refs :
                 ret.value[1 + k] = "Referenced in scope: " \o graph[refs[k]].attributes["scope"]

(***************************************************************************)
(* C5: the scope path.                                                     *)
(***************************************************************************)
\* the nodes process_tree records, in pre-order: the declarators that have a name
\* and the identifiers
RecordedNodes(t) ==
    InOrder({i \in DOMAIN t :
               \/ t[i].kind = "variable_declarator" /\ HasName(t, i)
               \/ t[i].kind = "identifier"})

\* the declaration and reference nodes of the graph, in creation order
EntryNodes(g) ==
    SelectSeq(iter_nodes(g), LAMBDA r :
        /\ "type" \in DOMAIN g[r].attributes
        /\ g[r].attributes["type"] \in {"declaration", "reference"})

\* the scope determine_scope resolves, and the scope recorded in the graph, is
\* the path of the named enclosing scopes, or "global" when there is none
ScopesAreEnclosingPaths ==
    tree.some =>
        /\ \A i \in DOMAIN tree.value :
              determine_scope(tree.value, i) = ScopeOf(tree.value, i)
        /\ Len(EntryNodes(graph)) = Len(RecordedNodes(tree.value))
        /\ \A k \in DOMAIN EntryNodes(graph) :
              graph[EntryNodes(graph)[k]].attributes["scope"]
                  = ScopeOf(tree.value, RecordedNodes(tree.value)[k])

\* C5 as stated: the resolved scope of a node is the "::"-join, outermost first,
\* of the names of its function, method and class ancestors that have a name, and
\* it is "global" exactly when no ancestor contributes a name.
C5_ScopePathExactlyGlobal ==
    /\ ScopesAreEnclosingPaths
    /\ tree.some =>
          \A i \in DOMAIN tree.value :
              (determine_scope(tree.value, i) = "global") <=> (Enclosing(tree.value, i) = {})

\* C5 as amended: the resolved scope of a node is the "::"-join, outermost first,
\* of the names of its function, method and class ancestors that have a name, and
\* it is "global" when no ancestor contributes a name; it is "global" otherwise
\* only when the one contributing ancestor is itself named global.
C5_ScopePath ==
    /\ ScopesAreEnclosingPaths
    /\ tree.some =>
          \A i \in DOMAIN tree.value :
              (determine_scope(tree.value, i) = "global") <=>
                  \/ Enclosing(tree.value, i) = {}
                  \/ \E a \in Enclosing(tree.value, i) :
                        Enclosing(tree.value, i) = {a} /\ NameOf(tree.value, a) = "global"

\* a declaration was recorded inside two nested named scopes of different names
C5_Witness ==
    /\ tree.some
    /\ \E k \in DOMAIN EntryNodes(graph) :
          /\ graph[EntryNodes(graph)[k]].attributes["type"] = "declaration"
          /\ graph[EntryNodes(graph)[k]].attributes["scope"] = "f::global"
          /\ Cardinality(Enclosing(tree.value, RecordedNodes(tree.value)[k])) = 2

(***************************************************************************)
(* C6: a top-level variable used in a top-level function.                  *)
(***************************************************************************)
\* u is directly in the body of the function fn
DirectlyInBody(t, u, fn) ==
    /\ fn \in ScopeAncestors(t, u)
    /\ \A a \in ScopeAncestors(t, u) : a <= fn
    /\ t[u].parent # fn

\* the top-level named functions in whose body the name n, declared at top
\* level, is used after that declarator
UsingFunctions(t, n) ==
    {fn \in DOMAIN t :
        /\ t[fn].kind = "function_declaration" /\ HasName(t, fn) /\ TopLevel(t, fn)
        /\ \E d \in Declarators(t, n) :
              /\ TopLevel(t, d)
              /\ \E u \in Occurrences(t, n) : u > d /\ DirectlyInBody(t, u, fn)}

\* C6: when v is declared by a top-level declarator and later used directly in
\* the body of a top-level function f, get_full_lineage(v) contains
\* "Declared in scope: global" and a "Referenced in scope: f" line.
C6_TopLevelVariableLineage ==
    LineageReturned =>
        \A fn \in UsingFunctions(tree.value, ret.name) :
            /\ "Declared in scope: global" \in Range(ret.value)
            /\ ("Referenced in scope: " \o NameOf(tree.value, fn)) \in Range(ret.value)

\* the lineage of such a variable was returned, the function being f
C6_Witness ==
    /\ LineageReturned
    /\ \E fn \in UsingFunctions(tree.value, ret.name) : NameOf(tree.value, fn) = "f"
    /\ "Referenced in scope: f" \in Range(ret.value)

(***************************************************************************)
(* C7: the life of the store.                                              *)
(***************************************************************************)
\* the nodes of the graph that have a given type
NodesOfType(g, type) ==
    {r \in DOMAIN g : "type" \in DOMAIN g[r].attributes /\ g[r].attributes["type"] = type}

\* the store is the initial empty one, or the whole traversal of the one file
\* last analyzed with success, and nothing else
StoreIsEmptyOrComplete ==
    IF tree.some
    THEN /\ graph = analyzed_graph(tree.value)
         /\ Cardinality(NodesOfType(graph, "root")) = 1
         /\ Len(EntryNodes(graph)) = Len(RecordedNodes(tree.value))
    ELSE graph = NewGraph

\* the store changes only in a successful analyze_file, which leaves the whole
\* traversal of the file as it is then; a failing analyze_file leaves the store
StoreChangesOnlyOnSuccess ==
    /\ graph' # graph =>
          /\ ret'.op = "analyze_file" /\ ret'.value = "Ok"
          /\ tree' = Some(file)
          /\ graph' = analyzed_graph(file)
    /\ (ret'.op = "analyze_file" /\ ret'.value = "Err") => graph' = graph

\* C7: in every reachable state the store the queries read is the initial empty
\* store or the complete traversal of exactly one successfully analyzed file; a
\* failing analyze_file exposes no partial store, and a successful one starts from
\* an empty store, so that nothing of an earlier analysis stays visible.
C7_RegistryLifecycle == [](StoreIsEmptyOrComplete) /\ [][StoreChangesOnlyOnSuccess]_vars

\* analyze_file has failed on the edited file after it had succeeded on the
\* file as it was before
C7_Witness ==
    /\ ret.op = "analyze_file" /\ ret.value = "Err"
    /\ tree.some /\ source_code.some
    /\ source_code.value # tree.value
    /\ EntryNodes(graph) # <<>>

(***************************************************************************)
(* C9: a declarator's name is also a reference.                            *)
(***************************************************************************)
\* the declarators whose name child is an identifier
IdentifierDeclarators(t) ==
    {d \in DOMAIN t :
        /\ t[d].kind = "variable_declarator" /\ HasName(t, d)
        /\ t[NameNode(t, d)].kind = "identifier"}

\* the position attribute of a tree node: "<line>,<column>", counted from 1
PositionText(t, i) ==
    format_usize(t[i].row + 1) \o <<",">> \o format_usize(t[i].column + 1)

\* the graph has a node of this type, name, scope and position
Recorded(g, type, name, scope, position) ==
    \E r \in NodesOfType(g, type) :
        /\ g[r].attributes["name"] = name
        /\ g[r].attributes["scope"] = scope
        /\ g[r].attributes["position"] = position

\* C9: for every variable_declarator whose name child is an identifier, the
\* traversal records a declaration and a reference of the same name, scope and
\* position (those of the name child), and print_lineage does not print
\* "No references found" for that name.
C9_DeclarationIsSelfReferenced ==
    tree.some =>
        \A d \in IdentifierDeclarators(tree.value) :
            LET t == tree.value
                n == NameNode(t, d)
            IN /\ Recorded(graph, "declaration", t[n].text, ScopeOf(t, d), PositionText(t, n))
               /\ Recorded(graph, "reference", t[n].text, ScopeOf(t, d), PositionText(t, n))
               /\ ret.op = "print_lineage" =>
                     \A k \in DOMAIN ret.value :
                         ret.value[k][2] = "Variable: " \o t[n].text =>
                             /\ ret.value[k][4] = " References:"
                             /\ " No references found" \notin Range(ret.value[k])

\* print_lineage has printed a variable declared under an identifier name, next
\* to one declared under a pattern, for which it found no reference
C9_Witness ==
    /\ tree.some /\ ret.op = "print_lineage"
    /\ IdentifierDeclarators(tree.value) # {}
    /\ \E k \in DOMAIN ret.value : ret.value[k][2] = "Variable: x"
    /\ \E k \in DOMAIN ret.value : " No references found" \in Range(ret.value[k])

(***************************************************************************)
(* C10: the edges of the graph and the scope strings.                      *)
(***************************************************************************)
\* the nodes that have an edge to r
Sources(g, r) == {q \in DOMAIN g : r \in g[q].edges}

RECURSIVE ScopeNodePath(_, _)
\* the names of the scope nodes from the root down to r, r included
ScopeNodePath(g, r) ==
    IF g[r].attributes["type"] = "root" THEN <<>>
    ELSE ScopeNodePath(g, CHOOSE q \in Sources(g, r) : TRUE)
         \o <<g[r].attributes["name"]>>

RECURSIVE Joined(_)
\* names joined with "::"
Joined(names) ==
    IF Len(names) = 1 THEN names[1]
    ELSE Joined(SubSeq(names, 1, Len(names) - 1)) \o "::" \o names[Len(names)]

\* C10: after analyze_file the graph is a tree rooted at the root node: every
\* scope, declaration and reference node has exactly one incoming edge, from a
\* node created before it, which is the root or a scope node; and the scope
\* attribute of a declaration or reference node is the "::"-join of the names of
\* the scope nodes from the root to its parent, or "global" under the root.
C10_EdgesAgreeWithScopes ==
    tree.some =>
        /\ NodesOfType(graph, "root") = {1}
        /\ Sources(graph, 1) = {}
        /\ \A r \in DOMAIN graph \ {1} :
              /\ graph[r].attributes["type"] \in {"scope", "declaration", "reference"}
              /\ Cardinality(Sources(graph, r)) = 1
              /\ \A q \in Sources(graph, r) :
                    q < r /\ graph[q].attributes["type"] \in {"root", "scope"}
        /\ \A r \in NodesOfType(graph, "declaration") \cup NodesOfType(graph, "reference") :
              LET path == ScopeNodePath(graph, CHOOSE q \in Sources(graph, r) : TRUE)
              IN graph[r].attributes["scope"]
                    = IF path = <<>> THEN "global" ELSE Joined(path)

\* a declaration was recorded under a scope node that lies under another one
C10_Witness ==
    /\ tree.some
    /\ \E r \in NodesOfType(graph, "declaration") :
          \E q \in NodesOfType(graph, "scope") :
              /\ r \in graph[q].edges
              /\ \E p \in NodesOfType(graph, "scope") : q \in graph[p].edges

====
